---- MODULE Spec2Model ----
(***************************************************************************)
(* A model of include/nanobind/nb_class.h: the type descriptor that the    *)
(* class and enum builders fill in and hand to nb_type_new, the trait      *)
(* handlers (type_extra_apply), and the instance facade.                   *)
(*                                                                         *)
(* A flag word is modelled as the set of its set bit positions: 1 << k is  *)
(* {k}, bitwise OR is union, bitwise AND is intersection, and a store into *)
(* the 24-bit bit-field 'flags' keeps the positions below 24.              *)
(***************************************************************************)
EXTENDS Integers, Sequences, FiniteSets, TLC

VARIABLES
    pc,          \* position of the registration call
    kind,        \* "class" (class_<T,Ts...>) or "enum" (enum_<T>)
    T,           \* compile-time facts about the bound type
    garbage,     \* what an uninitialised field of the stack descriptor holds
    d,           \* the type_init_data / enum_init_data under construction
    applied,     \* the traits applied so far, in argument order
    supp,        \* the enum_supplement of the created enum type
    scopeAttrs,  \* attribute names of the enclosing scope
    lastCall,    \* the last enum_ member call and its arguments
    inst,        \* the host objects that are nanobind instances
    mem,         \* payload storage: per instance, plus external storage
    log,         \* what the native hooks and initializers were asked to do
    native,      \* per host object: native shared_ptr owners of its payload
    keep,        \* per host object: its keep-alive list
    ret,         \* what the last hook or predicate returned
    defs,        \* the initializers def() has installed on the bound type
    registry,    \* the implicit conversion entries of the target type T
    cleanup,     \* the caller's cleanup list handed to a predicate
    stack,       \* the destruct hooks that are running, innermost last
    holds,       \* per instance: the instances its payload refers to
    runs,        \* per instance: how often its destruct hook has run
    marker       \* state of the facade that is not scoped to an instance

buildVars == <<pc, kind, T, garbage, d, applied, supp, scopeAttrs, lastCall>>
instVars  == <<inst, mem, log>>
hostVars  == <<native, keep, ret, defs, registry, cleanup, stack, holds, runs, marker>>
vars      == <<pc, kind, T, garbage, d, applied, supp, scopeAttrs, lastCall,
               inst, mem, log, native, keep, ret, defs, registry, cleanup,
               stack, holds, runs, marker>>

\* no hook or predicate has been called
IdleHost ==
    /\ native = <<>> /\ keep = <<>> /\ ret = "none"
    /\ defs = <<>> /\ registry = <<>> /\ cleanup = <<>>
    /\ stack = <<>> /\ holds = <<>> /\ runs = <<>> /\ marker = "none"

----------------------------------------------------------------------------
(* Bounds of the model *)

MaxTraits == 3

----------------------------------------------------------------------------
(* Flag words *)

Bit(k) == {k}

RECURSIVE BitsOf(_, _)
BitsOf(n, k) == IF n = 0 THEN {}
                ELSE (IF n % 2 = 1 THEN {k} ELSE {}) \cup BitsOf(n \div 2, k + 1)

Shl(s, n) == {b + n : b \in s}

\* enum class type_flags
is_destructible          == Bit(0)
is_copy_constructible    == Bit(1)
is_move_constructible    == Bit(2)
has_destruct             == Bit(4)
has_copy                 == Bit(5)
has_move                 == Bit(6)
has_implicit_conversions == Bit(7)
is_python_type           == Bit(8)
is_final                 == Bit(9)
has_dynamic_attr         == Bit(10)
intrusive_ptr            == Bit(11)
has_shared_from_this     == Bit(12)
weak_py                  == Bit(13)

\* enum class type_init_flags
has_supplement           == Bit(19)
has_doc                  == Bit(20)
has_base                 == Bit(21)
has_base_py              == Bit(22)
has_type_slots           == Bit(23)
\* a mask one bit short: 0xf << 19
all_init_flags_four_bits == Shl(BitsOf(15, 0), 19)

all_init_flags           == Shl(BitsOf(31, 0), 19)

\* uint32_t flags : 24
FlagsWidth == 24
\* uint32_t align : 8
AlignWidth == 8

RECURSIVE Pow2(_)
Pow2(n) == IF n = 0 THEN 1 ELSE 2 * Pow2(n - 1)

\* (uint8_t) n and (uint32_t) n, the latter by 16-bit halves
CastU8(n) == n % Pow2(AlignWidth)
CastU32(n) == (n % Pow2(16)) + Pow2(16) * ((n \div Pow2(16)) % Pow2(16))

StoreFlags(s) == {b \in s : b < FlagsWidth}

\* t.flags |= x
OrFlags(t, x) == [t EXCEPT !.flags = StoreFlags(@ \cup x)]

----------------------------------------------------------------------------
(* The bound types: what the compiler knows about T, Base and Alias *)

Cap == {"none", "trivial", "nontrivial"}

\* sizeof/alignof of T and of the alias argument, when one is given in Ts...
Layout(sT, aT, alias, sA, aA) ==
    [sizeofT |-> sT, alignofT |-> aT, hasAlias |-> alias,
     sizeofAliasArg |-> sA, alignofAliasArg |-> aA]

PlainLayout == Layout(8, 4, FALSE, 0, 0)

\* using Alias = typename detail::extract<T, detail::is_alias, Ts...>::type
SizeofAlias(t)  == IF t.layout.hasAlias THEN t.layout.sizeofAliasArg ELSE t.layout.sizeofT
AlignofAlias(t) == IF t.layout.hasAlias THEN t.layout.alignofAliasArg ELSE t.layout.alignofT

\* the limits of the static_asserts: (1 << 24) and (1 << 8)
SizeLimitShift == 24
AlignLimitShift == 8

TypeFacts(c, m, x, base, shared, lay, nTs, caster) ==
    [copy |-> c, move |-> m, destruct |-> x, hasBase |-> base, shared |-> shared,
     layout |-> lay, nTs |-> nTs, casterClaimed |-> caster, signed |-> FALSE]

ClassTypes ==
    {TypeFacts(c, m, x, FALSE, FALSE, PlainLayout, 0, FALSE) : c \in Cap, m \in Cap, x \in Cap}
    \cup {TypeFacts("nontrivial", "nontrivial", "nontrivial", TRUE, FALSE, PlainLayout, 1, FALSE),
          TypeFacts("nontrivial", "nontrivial", "nontrivial", FALSE, TRUE, PlainLayout, 0, FALSE),
          TypeFacts("trivial", "trivial", "trivial", FALSE, FALSE, Layout(8, 4, TRUE, 8, 4), 1, FALSE),
          TypeFacts("nontrivial", "nontrivial", "nontrivial", TRUE, FALSE, Layout(8, 4, TRUE, 24, 8), 2, FALSE),
          TypeFacts("trivial", "trivial", "trivial", FALSE, FALSE, Layout(1, 1, FALSE, 0, 0), 0, FALSE),
          \* rejected at build time
          TypeFacts("trivial", "trivial", "trivial", FALSE, FALSE,
                    Layout(Pow2(SizeLimitShift), 8, FALSE, 0, 0), 0, FALSE),
          TypeFacts("trivial", "trivial", "trivial", FALSE, FALSE,
                    Layout(512, Pow2(AlignLimitShift), FALSE, 0, 0), 0, FALSE),
          TypeFacts("trivial", "trivial", "trivial", FALSE, FALSE,
                    Layout(8, 4, TRUE, Pow2(SizeLimitShift) + 8, 8), 1, FALSE),
          TypeFacts("trivial", "trivial", "trivial", FALSE, FALSE, PlainLayout, 1, FALSE),
          TypeFacts("trivial", "trivial", "trivial", FALSE, FALSE, PlainLayout, 0, TRUE)}

EnumTypes ==
    {[TypeFacts("trivial", "trivial", "trivial", FALSE, FALSE, Layout(s, s, FALSE, 0, 0), 0, FALSE)
        EXCEPT !.signed = sg] : s \in {1, 4}, sg \in BOOLEAN}

\* static_asserts of class_ (sizes, alignments, extra template arguments, caster)
ClassStaticAsserts(t) ==
    /\ SizeofAlias(t) < Pow2(SizeLimitShift)
    /\ AlignofAlias(t) < Pow2(AlignLimitShift)
    /\ t.nTs = (IF t.hasBase THEN 1 ELSE 0) + (IF t.layout.hasAlias THEN 1 ELSE 0)
    /\ ~t.casterClaimed

----------------------------------------------------------------------------
(* The descriptor on the stack of the registration call *)

\* 'detail::type_init_data d;' initialises nothing
FreshTypeInitData(g) ==
    [size |-> g, align |-> g, flags |-> IF g = "NULL" THEN {} ELSE 0 .. 31,
     type |-> g, destruct |-> g, copy |-> g, move |-> g,
     set_self_py |-> g, keep_shared_from_this_alive |-> g, set_weak_py |-> g,
     scope |-> g, base |-> g, base_py |-> g, doc |-> g,
     type_slots |-> g, type_slots_callback |-> g, supplement |-> g,
     is_signed |-> FALSE, is_arithmetic |-> FALSE]

\* sizeof(detail::enum_supplement)
SizeofEnumSupplement == 24

----------------------------------------------------------------------------
(* Traits and their handlers *)

Trait(k, v) == [k |-> k, v |-> v]

ClassCatalogue ==
    {Trait("handle", "base_py1"), Trait("doc", "doc1"),
     Trait("type_slots", "slots1"), Trait("type_slots", "slots2"),
     Trait("type_slots_callback", "callback1"),
     Trait("intrusive_ptr", "set_self_py1"), Trait("weak_py", "set_weak_py1"),
     Trait("is_final", "-"), Trait("dynamic_attr", "-"), Trait("supplement", 16)}

\* the overloads taking enum_init_data & that are not deleted
EnumCatalogue ==
    {Trait("doc", "doc1"), Trait("type_slots", "slots1"), Trait("type_slots", "slots2"),
     Trait("dynamic_attr", "-"), Trait("is_arithmetic", "-")}

Catalogue(k) == IF k = "enum" THEN EnumCatalogue ELSE ClassCatalogue

type_extra_apply_handle(t, h) ==
    [OrFlags(t, has_base_py) EXCEPT !.base_py = h]

\* the flag word assigned instead of or-ed
type_extra_apply_doc_assign(t, doc) ==
    [t EXCEPT !.flags = StoreFlags(has_doc), !.doc = doc]

type_extra_apply_doc(t, doc) ==
    [OrFlags(t, has_doc) EXCEPT !.doc = doc]

\* the other alternative reset on every application
type_extra_apply_type_slots_always_reset(t, c) ==
    [OrFlags(t, has_type_slots) EXCEPT !.type_slots_callback = "NULL", !.type_slots = c]

type_extra_apply_type_slots(t, c) ==
    IF t.flags \cap has_type_slots = {}
    THEN [OrFlags(t, has_type_slots) EXCEPT !.type_slots_callback = "NULL", !.type_slots = c]
    ELSE [t EXCEPT !.type_slots = c]

type_extra_apply_type_slots_callback(t, c) ==
    IF t.flags \cap has_type_slots = {}
    THEN [OrFlags(t, has_type_slots) EXCEPT !.type_slots = "NULL", !.type_slots_callback = c]
    ELSE [t EXCEPT !.type_slots_callback = c]

type_extra_apply_intrusive_ptr(t, ip) ==
    [OrFlags(t, intrusive_ptr) EXCEPT !.set_self_py = ip]

type_extra_apply_weak_py(t, wp) ==
    [OrFlags(t, weak_py) EXCEPT !.set_weak_py = wp]

type_extra_apply_is_final(t) == OrFlags(t, is_final)

type_extra_apply_dynamic_attr(t) == OrFlags(t, has_dynamic_attr)

type_extra_apply_supplement(t, sizeofT) ==
    [OrFlags(t, has_supplement \cup is_final) EXCEPT !.supplement = sizeofT]

type_extra_apply_is_arithmetic(ed) == [ed EXCEPT !.is_arithmetic = TRUE]

\* overload resolution
type_extra_apply(t, x) ==
    CASE x.k = "handle"              -> type_extra_apply_handle(t, x.v)
      [] x.k = "doc"                 -> type_extra_apply_doc(t, x.v)
      [] x.k = "type_slots"          -> type_extra_apply_type_slots(t, x.v)
      [] x.k = "type_slots_callback" -> type_extra_apply_type_slots_callback(t, x.v)
      [] x.k = "intrusive_ptr"       -> type_extra_apply_intrusive_ptr(t, x.v)
      [] x.k = "weak_py"             -> type_extra_apply_weak_py(t, x.v)
      [] x.k = "is_final"            -> type_extra_apply_is_final(t)
      [] x.k = "dynamic_attr"        -> type_extra_apply_dynamic_attr(t)
      [] x.k = "supplement"          -> type_extra_apply_supplement(t, x.v)
      [] x.k = "is_arithmetic"       -> type_extra_apply_is_arithmetic(t)

----------------------------------------------------------------------------
(* class_::class_ up to the trait fold *)

\* the has_copy flag and hook installed for every copy-constructible type
class_probe_copy_always_hook(t, d0) ==
    IF t.copy # "none"
    THEN [OrFlags(d0, is_copy_constructible \cup has_copy) EXCEPT !.copy = "wrap_copy"]
    ELSE d0

class_probe_copy(t, d0) ==
    IF t.copy # "none"
    THEN LET d1 == OrFlags(d0, is_copy_constructible)
         IN  IF t.copy # "trivial"
             THEN [OrFlags(d1, has_copy) EXCEPT !.copy = "wrap_copy"]
             ELSE d1
    ELSE d0

class_probe_move(t, d0) ==
    IF t.move # "none"
    THEN LET d1 == OrFlags(d0, is_move_constructible)
         IN  IF t.move # "trivial"
             THEN [OrFlags(d1, has_move) EXCEPT !.move = "wrap_move"]
             ELSE d1
    ELSE d0

class_probe_destruct(t, d0) ==
    IF t.destruct # "none"
    THEN LET d1 == OrFlags(d0, is_destructible)
         IN  IF t.destruct # "trivial"
             THEN [OrFlags(d1, has_destruct) EXCEPT !.destruct = "wrap_destruct"]
             ELSE d1
    ELSE d0

class_probe_shared(t, d0) ==
    IF t.shared
    THEN [OrFlags(d0, has_shared_from_this)
            EXCEPT !.keep_shared_from_this_alive = "keep_shared_from_this_alive"]
    ELSE d0

\* size and alignment taken from T where an alias is given
class_header_sizeof_T(t, d0) ==
    [d0 EXCEPT !.flags = IF t.hasBase THEN StoreFlags(has_base) ELSE {},
               !.align = CastU8(t.layout.alignofT) % Pow2(AlignWidth),
               !.size = CastU32(t.layout.sizeofT),
               !.scope = "scope",
               !.type = "typeid(T)",
               !.base = IF t.hasBase THEN "typeid(Base)" ELSE @]

class_header(t, d0) ==
    LET d1 == [d0 EXCEPT !.flags = {},
                         !.align = CastU8(AlignofAlias(t)) % Pow2(AlignWidth),
                         !.size = CastU32(SizeofAlias(t)),
                         !.scope = "scope",
                         !.type = "typeid(T)"]
    IN  IF t.hasBase
        THEN [OrFlags(d1, has_base) EXCEPT !.base = "typeid(Base)"]
        ELSE d1

class_begin(t, d0) ==
    class_probe_shared(t,
        class_probe_destruct(t,
            class_probe_move(t,
                class_probe_copy(t, class_header(t, d0)))))

\* the enum treated as subclassable
enum_begin_not_final(t, d0) ==
    [d0 EXCEPT !.flags = StoreFlags(has_supplement \cup has_type_slots
                                    \cup is_copy_constructible \cup is_move_constructible
                                    \cup is_destructible),
               !.align = CastU8(t.layout.alignofT) % Pow2(AlignWidth),
               !.size = CastU32(t.layout.sizeofT),
               !.type = "typeid(T)",
               !.supplement = SizeofEnumSupplement,
               !.scope = "scope",
               !.type_slots = "NULL",
               !.type_slots_callback = "nb_enum_prepare",
               !.is_signed = t.signed]

\* enum_::enum_ up to the trait fold
enum_begin(t, d0) ==
    [d0 EXCEPT !.flags = StoreFlags(has_supplement \cup has_type_slots
                                    \cup is_copy_constructible \cup is_move_constructible
                                    \cup is_destructible \cup is_final),
               !.align = CastU8(t.layout.alignofT) % Pow2(AlignWidth),
               !.size = CastU32(t.layout.sizeofT),
               !.type = "typeid(T)",
               !.supplement = SizeofEnumSupplement,
               !.scope = "scope",
               !.type_slots = "NULL",
               !.type_slots_callback = "nb_enum_prepare",
               !.is_signed = t.signed]

----------------------------------------------------------------------------
(* The registration call as a state machine *)

NoCall == [op |-> "none", name |-> "-", value |-> 0]

NoSupp == [is_signed |-> FALSE, entries |-> <<>>, scope |-> "NULL"]

InitBuild ==
    /\ pc = "start"
    /\ kind \in {"class", "enum"}
    /\ T \in (IF kind = "enum" THEN EnumTypes ELSE ClassTypes)
    /\ garbage \in {"NULL", "JUNK"}
    /\ d = FreshTypeInitData(garbage)
    /\ applied = <<>>
    /\ supp = NoSupp
    /\ scopeAttrs = {}
    /\ lastCall = NoCall
    /\ inst = <<>>
    /\ mem = <<>>
    /\ log = <<>>
    /\ IdleHost

\* a static_assert of class_ fails: nothing is built
BuildFailure ==
    /\ pc = "start"
    /\ kind = "class"
    /\ ~ClassStaticAsserts(T)
    /\ pc' = "build_failed"
    /\ UNCHANGED <<kind, T, garbage, d, applied, supp, scopeAttrs, lastCall>>
    /\ UNCHANGED <<instVars, hostVars>>

ClassBegin ==
    /\ pc = "start"
    /\ kind = "class"
    /\ ClassStaticAsserts(T)
    /\ d' = class_begin(T, d)
    /\ pc' = "traits"
    /\ UNCHANGED <<kind, T, garbage, applied, supp, scopeAttrs, lastCall>>
    /\ UNCHANGED <<instVars, hostVars>>

EnumBegin ==
    /\ pc = "start"
    /\ kind = "enum"
    /\ d' = enum_begin(T, d)
    /\ pc' = "traits"
    /\ UNCHANGED <<kind, T, garbage, applied, supp, scopeAttrs, lastCall>>
    /\ UNCHANGED <<instVars, hostVars>>

\* one step of (detail::type_extra_apply(d, extra), ...)
ApplyTrait ==
    /\ pc = "traits"
    /\ Len(applied) < MaxTraits
    /\ \E x \in Catalogue(kind) :
          /\ d' = type_extra_apply(d, x)
          /\ applied' = Append(applied, x)
    /\ UNCHANGED <<pc, kind, T, garbage, supp, scopeAttrs, lastCall>>
    /\ UNCHANGED <<instVars, hostVars>>

\* m_ptr = detail::nb_type_new(&d), and for an enum the supplement set-up
TypeNew ==
    /\ pc = "traits"
    /\ pc' = "created"
    /\ supp' = IF kind = "enum"
               THEN [NoSupp EXCEPT !.is_signed = d.is_signed, !.scope = d.scope]
               ELSE supp
    /\ UNCHANGED <<kind, T, garbage, d, applied, scopeAttrs, lastCall>>
    /\ UNCHANGED <<instVars, hostVars>>

\* the constructor returns: its local descriptor is gone, the type is bound
ConstructorReturn ==
    /\ pc = "created"
    /\ pc' = "bound"
    /\ d' = FreshTypeInitData(garbage)
    /\ applied' = <<>>
    /\ UNCHANGED <<kind, T, garbage, supp, scopeAttrs, lastCall>>
    /\ UNCHANGED <<instVars, hostVars>>

NextBuild ==
    \/ BuildFailure
    \/ ClassBegin
    \/ EnumBegin
    \/ ApplyTrait
    \/ TypeNew
    \/ ConstructorReturn

SpecBuild == InitBuild /\ [][NextBuild]_vars

----------------------------------------------------------------------------
(* Properties of the descriptor builders *)

Has(f) == f \subseteq d.flags
Handed == pc = "created"
KindsOf(sq) == {sq[i].k : i \in 1 .. Len(sq)}
TraitsOf(sq) == {sq[i] : i \in 1 .. Len(sq)}
DistinctKinds(sq) == Cardinality(KindsOf(sq)) = Len(sq)

\* C4: in the descriptor class_ hands to nb_type_new, for copy, move and
\* destruct alike, the has_* flag is set iff the wrap_* function was
\* installed iff T has the capability and the operation is not trivial; a
\* has_* flag implies the is_* capability flag; a trivial operation has
\* neither the flag nor the function.
C4_HookFlagIffInstalled ==
    (Handed /\ kind = "class") =>
        /\ Has(has_copy) <=> (d.copy = "wrap_copy")
        /\ (d.copy = "wrap_copy") <=> (T.copy = "nontrivial")
        /\ Has(has_move) <=> (d.move = "wrap_move")
        /\ (d.move = "wrap_move") <=> (T.move = "nontrivial")
        /\ Has(has_destruct) <=> (d.destruct = "wrap_destruct")
        /\ (d.destruct = "wrap_destruct") <=> (T.destruct = "nontrivial")
        /\ Has(has_copy) => Has(is_copy_constructible)
        /\ Has(has_move) => Has(is_move_constructible)
        /\ Has(has_destruct) => Has(is_destructible)
        /\ Has(is_copy_constructible) <=> (T.copy # "none")
        /\ Has(is_move_constructible) <=> (T.move # "none")
        /\ Has(is_destructible) <=> (T.destruct # "none")

C4_Witness ==
    /\ Handed /\ kind = "class"
    /\ T.copy = "trivial" /\ T.move = "nontrivial" /\ T.destruct = "none"
    /\ Has(is_copy_constructible) /\ ~Has(has_copy) /\ Has(has_move)
    /\ Len(applied) = 2

\* C5 as stated: the descriptor's size and alignment are those of T, also
\* for a type bound together with an alias type.
C5_SizeAlignOfT ==
    Handed => (d.size = T.layout.sizeofT /\ d.align = T.layout.alignofT)

\* C5 as amended: a class descriptor's size and alignment are those of the
\* Alias type, which is T itself when no alias is given; an enum
\* descriptor's are those of T.
C5_SizeAlignOfAlias ==
    Handed =>
        /\ kind = "class" => (d.size = SizeofAlias(T) /\ d.align = AlignofAlias(T))
        /\ (kind = "enum" \/ ~T.layout.hasAlias) =>
               (d.size = T.layout.sizeofT /\ d.align = T.layout.alignofT)

C5_Witness ==
    /\ Handed /\ kind = "class" /\ T.layout.hasAlias
    /\ d.size = 24 /\ T.layout.sizeofT = 8 /\ d.align = 8

SlotKinds == {"type_slots", "type_slots_callback"}
OtherSlot(k) == IF k = "type_slots" THEN "type_slots_callback" ELSE "type_slots"
SlotValues(sq, k) == {x.v : x \in {y \in TraitsOf(sq) : y.k = k}}

\* C6: a slot trait applied while has_type_slots is clear sets the flag and
\* nulls the other alternative; applied while the flag is set it writes its
\* own field only; it never clears a flag. Hence once each variant has been
\* applied once, in either order, both fields hold the supplied values, and
\* on an enum descriptor type_slots leaves nb_enum_prepare in place.
C6_SlotTraits ==
    [][\A x \in Catalogue(kind) :
          (pc = "traits" /\ applied' = Append(applied, x) /\ x.k \in SlotKinds) =>
              /\ d'[x.k] = x.v
              /\ has_type_slots \subseteq d'.flags
              /\ d.flags \subseteq d'.flags
              /\ d'[OtherSlot(x.k)] =
                    IF d.flags \cap has_type_slots = {} THEN "NULL" ELSE d[OtherSlot(x.k)]
              /\ (\A k \in SlotKinds : Cardinality(SlotValues(applied', k)) = 1) =>
                    \A k \in SlotKinds : d'[k] \in SlotValues(applied', k)
              /\ kind = "enum" => d'.type_slots_callback = "nb_enum_prepare"]_vars

C6_Witness ==
    /\ kind = "class" /\ pc = "traits"
    /\ applied = <<Trait("type_slots_callback", "callback1"), Trait("doc", "doc1"),
                   Trait("type_slots", "slots2")>>
    /\ d.type_slots = "slots2" /\ d.type_slots_callback = "callback1"

\* what each trait kind ors into the flag word, and the field it writes
TraitFlags(k) ==
    CASE k = "handle"              -> has_base_py
      [] k = "doc"                 -> has_doc
      [] k \in SlotKinds           -> has_type_slots
      [] k = "intrusive_ptr"       -> intrusive_ptr
      [] k = "weak_py"             -> weak_py
      [] k = "is_final"            -> is_final
      [] k = "dynamic_attr"        -> has_dynamic_attr
      [] k = "supplement"          -> has_supplement \cup is_final
      [] k = "is_arithmetic"       -> {}

TraitField(k) ==
    CASE k = "handle"              -> "base_py"
      [] k = "doc"                 -> "doc"
      [] k = "type_slots"          -> "type_slots"
      [] k = "type_slots_callback" -> "type_slots_callback"
      [] k = "intrusive_ptr"       -> "set_self_py"
      [] k = "weak_py"             -> "set_weak_py"
      [] k = "supplement"          -> "supplement"
      [] k = "is_arithmetic"       -> "is_arithmetic"
      [] OTHER                     -> "none"

Begun == IF kind = "enum" THEN enum_begin(T, FreshTypeInitData(garbage))
                          ELSE class_begin(T, FreshTypeInitData(garbage))

\* the descriptor as the union of the effects of a set of traits on b
UnionOfEffects(b, S) ==
    [f \in DOMAIN b |->
        IF f = "flags"
        THEN b.flags \cup UNION {TraitFlags(x.k) : x \in S}
        ELSE IF \E x \in S : TraitField(x.k) = f
        THEN LET x == CHOOSE y \in S : TraitField(y.k) = f
             IN  IF x.k = "is_arithmetic" THEN TRUE ELSE x.v
        ELSE IF /\ f \in SlotKinds
                /\ b.flags \cap has_type_slots = {}
                /\ \E x \in S : x.k = OtherSlot(f)
        THEN "NULL"
        ELSE b[f]]

\* C7: after any sequence of traits of distinct kinds, in whatever order, the
\* descriptor is the union of the traits' effects on the descriptor the
\* capability probe produced: it depends on the set of traits only, and
\* every flag and field the probe wrote is still there.
C7_TraitsCompose ==
    (pc \in {"traits", "created"} /\ DistinctKinds(applied)) =>
        \A b \in {Begun} :
            /\ d = UnionOfEffects(b, TraitsOf(applied))
            /\ b.flags \subseteq d.flags
            /\ \A f \in {"size", "align", "type", "copy", "move", "destruct",
                         "keep_shared_from_this_alive", "scope", "base"} : d[f] = b[f]

C7_Witness ==
    /\ Handed /\ kind = "class" /\ T.copy = "nontrivial" /\ T.hasBase
    /\ applied = <<Trait("supplement", 16), Trait("doc", "doc1"), Trait("handle", "base_py1")>>
    /\ Has(has_copy) /\ Has(has_base) /\ Has(has_doc) /\ Has(has_base_py) /\ Has(is_final)

\* C8: whatever accepted traits enum_ is given, the descriptor it hands to
\* nb_type_new reserves the enum supplement, has the slot mechanism active
\* with nb_enum_prepare as its callback, has the three capability flags and
\* none of the three hook flags, and is final.
C8_EnumDescriptor ==
    (Handed /\ kind = "enum") =>
        /\ Has(has_supplement) /\ d.supplement = SizeofEnumSupplement
        /\ Has(has_type_slots) /\ d.type_slots_callback = "nb_enum_prepare"
        /\ Has(is_copy_constructible) /\ Has(is_move_constructible) /\ Has(is_destructible)
        /\ d.flags \cap (has_copy \cup has_move \cup has_destruct) = {}
        /\ Has(is_final)

C8_Witness ==
    /\ Handed /\ kind = "enum"
    /\ applied = <<Trait("is_arithmetic", "-"), Trait("type_slots", "slots1"),
                   Trait("dynamic_attr", "-")>>
    /\ d.is_arithmetic /\ d.type_slots = "slots1" /\ Has(has_dynamic_attr)

PersistentFlags ==
    {is_destructible, is_copy_constructible, is_move_constructible, has_destruct,
     has_copy, has_move, has_implicit_conversions, is_python_type, is_final,
     has_dynamic_attr, intrusive_ptr, has_shared_from_this, weak_py}

InitOnlyFlags == {has_supplement, has_doc, has_base, has_base_py, has_type_slots}

\* the flag word without the 24-bit store: what the builder and the traits
\* applied so far have ored in
FlagsOredIn == Begun.flags \cup UNION {TraitFlags(applied[i].k) : i \in 1 .. Len(applied)}

\* C14: every flag is one bit that the 24-bit field stores unchanged, the
\* highest being bit 23; the persistent flags lie in bits 0..13 and the
\* init-only flags in bits 19..23; all_init_flags is the union of the five
\* init-only flags; the flag word of a descriptor being built holds exactly
\* what was ored into it, and masking out all_init_flags removes no
\* persistent flag from it.
C14_FlagLayout ==
    /\ \A f \in PersistentFlags \cup InitOnlyFlags :
          Cardinality(f) = 1 /\ StoreFlags(f) = f
    /\ UNION PersistentFlags \subseteq 0 .. 13
    /\ UNION InitOnlyFlags \subseteq 19 .. (FlagsWidth - 1)
    /\ has_type_slots = Bit(FlagsWidth - 1)
    /\ UNION PersistentFlags \cap UNION InitOnlyFlags = {}
    /\ all_init_flags = UNION InitOnlyFlags
    /\ pc \in {"traits", "created"} =>
          /\ d.flags = FlagsOredIn
          /\ d.flags \subseteq UNION (PersistentFlags \cup InitOnlyFlags)
          /\ (d.flags \ all_init_flags) = d.flags \cap UNION PersistentFlags

\* a descriptor handed over with the highest persistent and the highest
\* init-only flag both set
C14_Witness ==
    /\ Handed /\ kind = "class"
    /\ Has(weak_py) /\ Has(has_type_slots) /\ Has(has_base) /\ Has(has_destruct)

----------------------------------------------------------------------------
(* enum_::value and enum_::export_values *)

MaxEnumValue == 1

EnumNames == {"RED", "GREEN", "BLUE"}
EnumValues == 0 .. MaxEnumValue

EntryNames(sp) == {sp.entries[i].name : i \in 1 .. Len(sp.entries)}

\* detail::nb_enum_put: append the entry; a name the enum already has is a
\* usage error and leaves the table as it was
nb_enum_put(sp, name, v, doc) ==
    IF name \in EntryNames(sp)
    THEN [raised |-> TRUE, supp |-> sp]
    ELSE [raised |-> FALSE,
          supp |-> [sp EXCEPT !.entries = Append(@, [name |-> name, value |-> v, doc |-> doc])]]

\* detail::nb_enum_export: every entry becomes an attribute of the scope; a
\* name the scope already has is a usage error (how many of the other entries
\* were exported before the error is left open)
nb_enum_export(sp, attrs) ==
    IF EntryNames(sp) \cap attrs # {}
    THEN {[raised |-> TRUE, attrs |-> attrs \cup S] : S \in SUBSET (EntryNames(sp) \ attrs)}
    ELSE {[raised |-> FALSE, attrs |-> attrs \cup EntryNames(sp)]}

\* an entry of an existing name replaces the old one
enum_value_replace(sp, name, v, doc) ==
    IF name \in EntryNames(sp)
    THEN [raised |-> FALSE,
          supp |-> [sp EXCEPT !.entries =
                       [i \in 1 .. Len(@) |->
                           IF @[i].name = name
                           THEN [name |-> name, value |-> v, doc |-> doc] ELSE @[i]]]]
    ELSE nb_enum_put(sp, name, v, doc)

\* enum_::value(name, value, doc = nullptr)
enum_value(sp, name, v, doc) == nb_enum_put(sp, name, v, doc)

\* enum_::export_values()
enum_export_values(sp, attrs) == nb_enum_export(sp, attrs)

InitEnum ==
    /\ pc = "start"
    /\ kind = "enum"
    /\ T \in EnumTypes
    /\ garbage \in {"NULL", "JUNK"}
    /\ d = FreshTypeInitData(garbage)
    /\ applied = <<>>
    /\ supp = NoSupp
    /\ scopeAttrs \in {{}, {"GREEN"}, {"other"}}
    /\ lastCall = NoCall
    /\ inst = <<>>
    /\ mem = <<>>
    /\ log = <<>>
    /\ IdleHost

Value ==
    /\ pc = "bound"
    /\ kind = "enum"
    /\ \E name \in EnumNames, v \in EnumValues :
          LET r == enum_value(supp, name, v, "NULL")
          IN  /\ supp' = r.supp
              /\ pc' = IF r.raised THEN "raised_value" ELSE pc
              /\ lastCall' = [op |-> "value", name |-> name, value |-> v]
    /\ UNCHANGED <<kind, T, garbage, d, applied, scopeAttrs>>
    /\ UNCHANGED <<instVars, hostVars>>

ExportValues ==
    /\ pc = "bound"
    /\ kind = "enum"
    /\ \E r \in enum_export_values(supp, scopeAttrs) :
          /\ scopeAttrs' = r.attrs
          /\ pc' = IF r.raised THEN "raised_export" ELSE pc
    /\ lastCall' = [op |-> "export_values", name |-> "-", value |-> 0]
    /\ UNCHANGED <<kind, T, garbage, d, applied, supp>>
    /\ UNCHANGED <<instVars, hostVars>>

NextEnum ==
    \/ EnumBegin
    \/ ApplyTrait
    \/ TypeNew
    \/ ConstructorReturn
    \/ Value
    \/ ExportValues

SpecEnum == InitEnum /\ [][NextEnum]_vars

\* C9: value(name, v) with a name the enum already has raises and changes
\* nothing, with a new name it appends (name, v) at the end of the entry
\* table; hence the table holds the successfully declared entries, with
\* distinct names, in declaration order. export_values() raises when an entry
\* name is already an attribute of the scope, and otherwise leaves every entry
\* name an attribute of the scope.
C9_EnumEntries ==
    [][(pc = "bound" /\ kind = "enum") =>
          /\ lastCall'.op = "value" =>
                IF lastCall'.name \in EntryNames(supp)
                THEN pc' = "raised_value" /\ supp' = supp
                ELSE /\ pc' = "bound"
                     /\ Len(supp'.entries) = Len(supp.entries) + 1
                     /\ SubSeq(supp'.entries, 1, Len(supp.entries)) = supp.entries
                     /\ supp'.entries[Len(supp'.entries)].name = lastCall'.name
                     /\ supp'.entries[Len(supp'.entries)].value = lastCall'.value
                     /\ Cardinality(EntryNames(supp')) = Len(supp'.entries)
          /\ lastCall'.op = "export_values" =>
                IF EntryNames(supp) \cap scopeAttrs # {}
                THEN pc' = "raised_export"
                ELSE /\ pc' = "bound"
                     /\ EntryNames(supp) \subseteq scopeAttrs'
                     /\ scopeAttrs \subseteq scopeAttrs']_vars

C9_Witness ==
    /\ pc = "bound" /\ kind = "enum"
    /\ Len(supp.entries) = 3
    /\ supp.entries[1].name = "RED" /\ supp.entries[2].name = "GREEN"
    /\ supp.entries[3].name = "BLUE" /\ supp.entries[3].value = 1
    /\ {"RED", "GREEN", "BLUE"} \subseteq scopeAttrs
    /\ lastCall.op = "export_values"

----------------------------------------------------------------------------
(* Instances: the host objects of bound types and the inst_ facade *)

MaxInst == 2

Handles == 1 .. MaxInst

\* the bound types whose instances are followed: a plain value type, a type
\* with non-trivial special members and an alias, a type without any of them
Point == TypeFacts("trivial", "trivial", "trivial", FALSE, FALSE, PlainLayout, 0, FALSE)
Animal ==
    TypeFacts("nontrivial", "nontrivial", "nontrivial", FALSE, FALSE,
              Layout(8, 8, TRUE, 24, 8), 1, FALSE)
Opaque == TypeFacts("none", "none", "none", FALSE, FALSE, PlainLayout, 0, FALSE)

InstClassTypes == {Point, Animal, Opaque}

\* an instance is of the bound type itself or of a host-language subclass of it
InstTypes == {"bound", "derived"}

\* the type_data of the bound type T that persists after nb_type_new: the
\* init-only flags are gone
TypeDataOf ==
    [t \in InstClassTypes |->
        LET b == class_begin(t, FreshTypeInitData("NULL"))
        IN  [b EXCEPT !.flags = b.flags \ all_init_flags]]

TypeData == TypeDataOf[T]

TypeHas(f) == f \subseteq TypeData.flags

FreeInst == [st |-> "free", ty |-> "-", via |-> "-", ready |-> FALSE, destruct |-> FALSE,
             ptr |-> 0, parent |-> 0, held |-> FALSE, sd |-> FALSE]
GoneInst == [FreeInst EXCEPT !.st = "gone"]

\* the hooks run by the last operation
NoLog == <<>>

\* instance `by` had `hook` run on the payload at `on`
Call(hook, on, by) == [hook |-> hook, on |-> on, by |-> by]

\* the part of the state a facade call works on
World == [inst |-> inst, mem |-> mem, calls |-> <<>>]

\* detail::nb_inst_alloc / nb_inst_alloc_zero: storage inside the host object,
\* nothing constructed, state (ready = false, owns = true)
nb_inst_alloc(w, h, ty, zero) ==
    [w EXCEPT !.inst[h] = [st |-> "live", ty |-> ty, via |-> "alloc", ready |-> FALSE,
                           destruct |-> TRUE, ptr |-> h, parent |-> 0, held |-> TRUE,
                           sd |-> FALSE],
              !.mem[h] = IF zero THEN "zero" ELSE "raw"]

\* detail::nb_inst_take_ownership: wrap an externally constructed object; the
\* instance owns it
nb_inst_take_ownership(w, h, ty, rdy) ==
    [w EXCEPT !.inst[h] = [st |-> "live", ty |-> ty, via |-> "take", ready |-> rdy,
                           destruct |-> TRUE, ptr |-> h, parent |-> 0, held |-> TRUE,
                           sd |-> FALSE],
              !.mem[h] = "T"]

\* detail::nb_inst_reference: wrap without owning; a parent is kept alive as
\* long as the instance. parent = 0 is the null handle, and the pointer is then
\* that of an external object; with a parent it points into the parent's payload
nb_inst_reference(w, h, ty, parent, rdy) ==
    [w EXCEPT !.inst[h] = [st |-> "live", ty |-> ty, via |-> "ref", ready |-> rdy,
                           destruct |-> FALSE,
                           ptr |-> IF parent = 0 THEN h ELSE w.inst[parent].ptr,
                           parent |-> parent, held |-> TRUE, sd |-> FALSE],
              !.mem[h] = IF parent = 0 THEN "T" ELSE "none"]

\* detail::nb_inst_zero
nb_inst_zero(w, h) == [w EXCEPT !.mem[w.inst[h].ptr] = "zero"]

\* detail::nb_inst_set_state
nb_inst_set_state(w, h, rdy, destruct) ==
    [w EXCEPT !.inst[h].ready = rdy, !.inst[h].destruct = destruct]

\* detail::nb_inst_set_destroyed: the payload counts as destructed already
nb_inst_set_destroyed(w, h) ==
    [w EXCEPT !.inst[h].ready = FALSE, !.inst[h].destruct = FALSE, !.inst[h].sd = TRUE]

\* detail::nb_inst_state
nb_inst_state(w, h) == <<w.inst[h].ready, w.inst[h].destruct>>

\* the destruct hook of the descriptor, or the no-op of a trivial destructor
RunDestruct(w, h) ==
    [w EXCEPT !.calls = Append(@, Call(IF TypeHas(has_destruct)
                                       THEN TypeData.destruct
                                       ELSE "trivial_destruct", w.inst[h].ptr, h)),
              !.mem[w.inst[h].ptr] = "dead"]

\* detail::nb_inst_destruct: destruct the payload if the instance owns it
nb_inst_destruct(w, h) ==
    LET w1 == IF w.inst[h].destruct /\ TypeHas(is_destructible)
              THEN RunDestruct(w, h) ELSE w
    IN  [w1 EXCEPT !.inst[h].ready = FALSE, !.inst[h].destruct = FALSE]

\* detail::nb_inst_copy / nb_inst_move: the hook, or a raw memory copy
nb_inst_copy(w, dst, src) ==
    [w EXCEPT !.calls = Append(@, Call(IF TypeHas(has_copy)
                                       THEN TypeData.copy
                                       ELSE "memcpy", w.inst[dst].ptr, dst)),
              !.mem[w.inst[dst].ptr] = w.mem[w.inst[src].ptr],
              !.inst[dst].ready = TRUE]

nb_inst_move(w, dst, src) ==
    [w EXCEPT !.calls = Append(@, Call(IF TypeHas(has_move)
                                       THEN TypeData.move
                                       ELSE "memcpy", w.inst[dst].ptr, dst)),
              !.mem[w.inst[dst].ptr] = w.mem[w.inst[src].ptr],
              !.inst[dst].ready = TRUE]

\* detail::nb_inst_replace_copy / nb_inst_replace_move: the destination's
\* payload is destructed first; the destination keeps its ownership
nb_inst_replace_copy(w, dst, src) ==
    [nb_inst_copy(nb_inst_destruct(w, dst), dst, src)
        EXCEPT !.inst[dst].destruct = w.inst[dst].destruct]

nb_inst_replace_move(w, dst, src) ==
    [nb_inst_move(nb_inst_destruct(w, dst), dst, src)
        EXCEPT !.inst[dst].destruct = w.inst[dst].destruct]

\* detail::nb_inst_python_derived
nb_inst_python_derived(w, h) == w.inst[h].ty = "derived"

\* some live instance keeps p alive as its parent
HasChild(I, p) == \E c \in DOMAIN I : I[c].st = "live" /\ I[c].parent = p

\* teardown of the instance when its last reference is gone: the payload is
\* destructed if the instance owns it, the storage is given back, and the
\* reference to the parent is released
RECURSIVE inst_dealloc(_, _)
inst_dealloc(w, h) ==
    LET p  == w.inst[h].parent
        w1 == IF w.inst[h].destruct /\ TypeHas(is_destructible)
              THEN RunDestruct(w, h) ELSE w
        w2 == [w1 EXCEPT !.inst[h] = [GoneInst EXCEPT !.sd = w.inst[h].sd],
                         !.mem[h] = IF w.inst[h].via = "alloc"
                                       \/ (w.inst[h].via = "take" /\ w.inst[h].destruct)
                                    THEN "freed" ELSE @]
    IN  IF p # 0 /\ ~w2.inst[p].held /\ ~HasChild(w2.inst, p)
        THEN inst_dealloc(w2, p) ELSE w2

\* the caller gives up its reference to h
host_decref(w, h) ==
    IF HasChild(w.inst, h) THEN [w EXCEPT !.inst[h].held = FALSE] ELSE inst_dealloc(w, h)

----------------------------------------------------------------------------
(* The facade of nb_class.h *)

inst_alloc(w, h, ty) == nb_inst_alloc(w, h, ty, FALSE)
inst_alloc_zero(w, h, ty) == nb_inst_alloc(w, h, ty, TRUE)
inst_take_ownership(w, h, ty, rdy) == nb_inst_take_ownership(w, h, ty, rdy)

\* the parent handle dropped on the way
inst_reference_no_parent(w, h, ty, parent, rdy) ==
    [nb_inst_reference(w, h, ty, parent, rdy) EXCEPT !.inst[h].parent = 0]

inst_reference(w, h, ty, parent, rdy) == nb_inst_reference(w, h, ty, parent, rdy)
inst_zero(w, h) == nb_inst_zero(w, h)
inst_set_state(w, h, rdy, destruct) == nb_inst_set_state(w, h, rdy, destruct)

\* the call forwarded as a state change that keeps ownership
inst_set_destroyed_keeps_owns(w, h) ==
    [nb_inst_set_state(w, h, FALSE, w.inst[h].destruct) EXCEPT !.inst[h].sd = TRUE]

inst_set_destroyed(w, h) == nb_inst_set_destroyed(w, h)
inst_state(w, h) == nb_inst_state(w, h)

\* ready without ownership
inst_mark_ready_not_owning(w, h) == inst_set_state(w, h, TRUE, FALSE)

inst_mark_ready(w, h) == inst_set_state(w, h, TRUE, TRUE)
inst_ready(w, h) == inst_state(w, h)[1]
inst_destruct(w, h) == nb_inst_destruct(w, h)
inst_copy(w, dst, src) == nb_inst_copy(w, dst, src)
inst_move(w, dst, src) == nb_inst_move(w, dst, src)
inst_replace_copy(w, dst, src) == nb_inst_replace_copy(w, dst, src)
inst_replace_move(w, dst, src) == nb_inst_replace_move(w, dst, src)

----------------------------------------------------------------------------
(* The initializers registered by init<Args...> and init_implicit<Arg> *)

\* Alias is Type itself unless an alias type was given
AliasName(t) == IF t.layout.hasAlias THEN "Alias" ELSE "T"

\* new (v.p) What{ args... }
Construct(w, h, what) ==
    [w EXCEPT !.calls = Append(@, Call(what, w.inst[h].ptr, h)),
              !.mem[w.inst[h].ptr] = what]

\* the early return after constructing Type left out
init_lambda_falls_through(w, h, tConstructible) ==
    LET t == T
    IN  IF t.layout.hasAlias /\ tConstructible /\ ~nb_inst_python_derived(w, h)
        THEN Construct(Construct(w, h, "T"), h, AliasName(t))
        ELSE Construct(w, h, AliasName(t))

\* the "__init__" lambda of init<Args...>::execute
init_lambda(w, h, tConstructible) ==
    LET t == T
    IN  IF t.layout.hasAlias /\ tConstructible
        THEN IF ~nb_inst_python_derived(w, h)
             THEN Construct(w, h, "T")
             ELSE Construct(w, h, AliasName(t))
        ELSE Construct(w, h, AliasName(t))

\* the "__init__" lambda of init_implicit<Arg>::execute
init_implicit_lambda(w, h, tConstructible) ==
    LET t == T
    IN  IF t.layout.hasAlias /\ tConstructible
        THEN IF ~nb_inst_python_derived(w, h)
             THEN Construct(w, h, "T")
             ELSE Construct(w, h, AliasName(t))
        ELSE Construct(w, h, AliasName(t))

----------------------------------------------------------------------------
(* The life of instances as a state machine *)

InitInst ==
    /\ pc = "bound"
    /\ kind = "class"
    /\ T \in InstClassTypes
    /\ garbage = "NULL"
    /\ d = FreshTypeInitData("NULL")
    /\ applied = <<>>
    /\ supp = NoSupp
    /\ scopeAttrs = {}
    /\ lastCall = NoCall
    /\ inst = [h \in Handles |-> FreeInst]
    /\ mem = [h \in Handles |-> "none"]
    /\ log = NoLog
    /\ IdleHost

\* an operation took the world to w
Done(w) ==
    /\ inst' = w.inst
    /\ mem' = w.mem
    /\ log' = w.calls
    /\ UNCHANGED <<buildVars, hostVars>>

\* host objects come into being in the order of their handles
Fresh(h) == inst[h].st = "free" /\ (IF h = 1 THEN TRUE ELSE inst[h - 1].st # "free")

\* the caller holds a reference to the live object h
Usable(h) == inst[h].st = "live" /\ inst[h].held

Alloc ==
    \E h \in Handles, ty \in InstTypes :
        Fresh(h) /\ Done(inst_alloc(World, h, ty))

AllocZero ==
    \E h \in Handles, ty \in InstTypes :
        Fresh(h) /\ Done(inst_alloc_zero(World, h, ty))

TakeOwnership ==
    \E h \in Handles, ty \in {"bound"}, rdy \in BOOLEAN :
        Fresh(h) /\ Done(inst_take_ownership(World, h, ty, rdy))

Reference ==
    \E h \in Handles, ty \in {"bound"}, rdy \in BOOLEAN, parent \in {0} \cup Handles :
        /\ Fresh(h)
        /\ parent # 0 => (Usable(parent) /\ inst[parent].ty = ty)
        /\ Done(inst_reference(World, h, ty, parent, rdy))

Zero ==
    \E h \in Handles : Usable(h) /\ Done(inst_zero(World, h))

SetState ==
    \E h \in Handles, rdy \in BOOLEAN, destruct \in BOOLEAN :
        Usable(h) /\ Done(inst_set_state(World, h, rdy, destruct))

SetDestroyed ==
    \E h \in Handles : Usable(h) /\ Done(inst_set_destroyed(World, h))

MarkReady ==
    \E h \in Handles : Usable(h) /\ Done(inst_mark_ready(World, h))

Destruct ==
    \E h \in Handles :
        /\ Usable(h)
        /\ TypeHas(is_destructible)
        /\ Done(inst_destruct(World, h))

CanTransfer(dst, src, cap) ==
    /\ Usable(dst) /\ Usable(src)
    /\ dst # src
    /\ inst[dst].ty = inst[src].ty
    /\ inst[dst].ptr # inst[src].ptr
    /\ TypeHas(cap)

Copy ==
    \E dst \in Handles, src \in Handles :
        /\ CanTransfer(dst, src, is_copy_constructible)
        /\ Done(inst_copy(World, dst, src))

Move ==
    \E dst \in Handles, src \in Handles :
        /\ CanTransfer(dst, src, is_move_constructible)
        /\ Done(inst_move(World, dst, src))

ReplaceCopy ==
    \E dst \in Handles, src \in Handles :
        /\ CanTransfer(dst, src, is_copy_constructible)
        /\ TypeHas(is_destructible)
        /\ Done(inst_replace_copy(World, dst, src))

ReplaceMove ==
    \E dst \in Handles, src \in Handles :
        /\ CanTransfer(dst, src, is_move_constructible)
        /\ TypeHas(is_destructible)
        /\ Done(inst_replace_move(World, dst, src))

\* "__init__" is called on a freshly allocated instance; an overload whose
\* arguments construct neither Type nor Alias does not compile
CanInit(h, tConstructible) ==
    /\ Usable(h)
    /\ inst[h].via = "alloc"
    /\ ~inst[h].ready
    /\ mem[h] \in {"raw", "zero"}
    /\ T.layout.hasAlias \/ tConstructible

CallInit ==
    \E h \in Handles, tConstructible \in BOOLEAN :
        /\ CanInit(h, tConstructible)
        /\ Done(init_lambda(World, h, tConstructible))

CallInitImplicit ==
    \E h \in Handles, tConstructible \in BOOLEAN :
        /\ CanInit(h, tConstructible)
        /\ Done(init_implicit_lambda(World, h, tConstructible))

\* the caller lets go of its reference; the host collects what nothing refers
\* to any more
Release ==
    \E h \in Handles : Usable(h) /\ Done(host_decref(World, h))

NextInst ==
    \/ Alloc
    \/ AllocZero
    \/ TakeOwnership
    \/ Reference
    \/ Zero
    \/ SetState
    \/ SetDestroyed
    \/ MarkReady
    \/ Destruct
    \/ Copy
    \/ Move
    \/ ReplaceCopy
    \/ ReplaceMove
    \/ CallInit
    \/ CallInitImplicit
    \/ Release

SpecInst == InitInst /\ [][NextInst]_vars

----------------------------------------------------------------------------
(* Properties of the instance facade *)

DestructHooks == {"wrap_destruct", "trivial_destruct"}

\* how often the operation whose hooks are `calls` ran destruct for instance h
DestructCalls(calls, h) ==
    Cardinality({i \in 1 .. Len(calls) : calls[i].by = h /\ calls[i].hook \in DestructHooks})

\* this step is the teardown of h
Teardown(h) == inst[h].st = "live" /\ inst'[h].st = "gone"

\* this step brought h into being through `via`
Created(h, via) == inst[h].st = "free" /\ inst'[h].via = via

\* C1 as stated: teardown of an owning instance of a destructible type runs
\* destruct exactly once, and once inst_set_destroyed has been called on an
\* instance its teardown runs no destruct at all.
C1_DestroyedNeverDestructs ==
    [][\A h \in Handles :
          Teardown(h) =>
              DestructCalls(log', h) =
                  IF inst[h].sd THEN 0
                  ELSE IF inst[h].destruct /\ TypeHas(is_destructible) THEN 1 ELSE 0]_vars

\* C1: the teardown of an instance runs destruct (the hook or the trivial
\* no-op) exactly once if the instance owns its payload at that moment and the
\* type is destructible, and not at all otherwise; inst_set_destroyed runs no
\* hook and leaves the instance not owning, so that a teardown that follows it
\* directly runs no destruct.
C1_TeardownDestructsOwned ==
    [][\A h \in Handles :
          /\ Teardown(h) =>
                DestructCalls(log', h) =
                    IF inst[h].destruct /\ TypeHas(is_destructible) THEN 1 ELSE 0
          /\ Usable(h) =>
                LET w == inst_set_destroyed(World, h)
                IN  /\ ~inst_state(w, h)[2]
                    /\ w.calls = <<>>
                    /\ DestructCalls(host_decref(w, h).calls, h) = 0]_vars

\* an instance on which inst_set_destroyed had been called was torn down and
\* its destruct hook ran
C1_Witness ==
    \E h \in Handles :
        /\ inst[h].st = "gone"
        /\ inst[h].sd
        /\ log = <<Call("wrap_destruct", h, h)>>

\* C2 as stated: the teardown of an instance made by inst_reference never runs
\* destruct, and the payload of a live instance is never given back.
C2_ReferenceNeverDestructs ==
    [][\A h \in Handles :
          /\ (Teardown(h) /\ inst[h].via = "ref") => DestructCalls(log', h) = 0
          /\ inst'[h].st = "live" => mem'[inst'[h].ptr] # "freed"]_vars

\* C2: inst_reference makes an instance that does not own its payload; the
\* teardown of an instance that does not own its payload runs no destruct; a
\* parent stays alive as long as an instance that names it, and the payload of
\* a live instance is never given back.
C2_ReferenceDoesNotOwn ==
    [][\A h \in Handles :
          /\ Created(h, "ref") => ~inst_state(World', h)[2]
          /\ (Teardown(h) /\ ~inst[h].destruct) => DestructCalls(log', h) = 0
          /\ inst'[h].st = "live" =>
                /\ mem'[inst'[h].ptr] # "freed"
                /\ inst'[h].parent # 0 => inst'[inst'[h].parent].st = "live"]_vars

\* the caller has let go of the parent, which lives on for its child
C2_Witness ==
    \E h \in Handles :
        /\ inst[h].st = "live" /\ inst[h].via = "ref" /\ inst[h].parent # 0
        /\ inst[inst[h].parent].st = "live"
        /\ ~inst[inst[h].parent].held
        /\ mem[inst[h].ptr] \in {"T", "Alias"}

\* C3: right after inst_alloc and inst_alloc_zero the state of the instance is
\* (ready = false, owns = true); inst_mark_ready is inst_set_state(true, true),
\* and after it inst_state is (true, true) and inst_ready is true, from any
\* state.
C3_AllocAndMarkReady ==
    [][\A h \in Handles :
          /\ Created(h, "alloc") =>
                /\ inst_state(World', h) = <<FALSE, TRUE>>
                /\ ~inst_ready(World', h)
          /\ Fresh(h) =>
                \A ty \in InstTypes :
                    /\ inst_state(inst_alloc(World, h, ty), h) = <<FALSE, TRUE>>
                    /\ inst_state(inst_alloc_zero(World, h, ty), h) = <<FALSE, TRUE>>
          /\ Usable(h) =>
                LET w == inst_mark_ready(World, h)
                IN  /\ w = inst_set_state(World, h, TRUE, TRUE)
                    /\ inst_state(w, h) = <<TRUE, TRUE>>
                    /\ inst_ready(w, h)]_vars

\* an allocated instance that was marked destroyed is ready and owning again
C3_Witness ==
    \E h \in Handles :
        /\ inst[h].via = "alloc" /\ inst[h].sd
        /\ inst_state(World, h) = <<TRUE, TRUE>>
        /\ inst_ready(World, h)

\* the type the initializer has to construct
Constructed(h, tConstructible) ==
    IF tConstructible /\ ~nb_inst_python_derived(World, h) THEN "T" ELSE AliasName(T)

ConstructsOnce(w, h, tConstructible) ==
    /\ w.calls = <<Call(Constructed(h, tConstructible), inst[h].ptr, h)>>
    /\ w.mem[inst[h].ptr] = Constructed(h, tConstructible)
    /\ w.inst = inst
    /\ ~T.layout.hasAlias => w.calls[1].hook = "T"

\* C10: called on a not yet constructed instance, the initializer of
\* init<Args...> (and that of init_implicit<Arg>) constructs in place exactly
\* once: T if the instance is not of a host-language subclass and T is
\* constructible from the arguments, the alias type otherwise; without an
\* alias that is always T.
C10_InitConstructsOnce ==
    \A h \in Handles, tConstructible \in BOOLEAN :
        CanInit(h, tConstructible) =>
            /\ ConstructsOnce(init_lambda(World, h, tConstructible), h, tConstructible)
            /\ ConstructsOnce(init_implicit_lambda(World, h, tConstructible), h, tConstructible)

\* the initializer has constructed the alias type in an instance of a
\* host-language subclass
C10_Witness ==
    \E h \in Handles :
        /\ T.layout.hasAlias
        /\ inst[h].ty = "derived"
        /\ log = <<Call("Alias", inst[h].ptr, h)>>
        /\ mem[inst[h].ptr] = "Alias"

----------------------------------------------------------------------------
(* The keep-alive hook of a type with shared ownership *)

MaxOwners == 2
MaxKeep == 2

\* types of which some derive from enable_shared_from_this
SharedTypes ==
    {TypeFacts("nontrivial", "nontrivial", "nontrivial", b, sh, PlainLayout,
               IF b THEN 1 ELSE 0, FALSE) : b \in BOOLEAN, sh \in BOOLEAN}
    \cup {TypeFacts("trivial", "trivial", "trivial", FALSE, FALSE, PlainLayout, 0, FALSE)}

\* the part of the state the hook works on
HostWorld == [native |-> native, keep |-> keep]

\* the shared_ptr owners of the payload of self: the native ones and those
\* held in the keep-alive list
StrongCount(w, self) == w.native[self] + Len(w.keep[self])

\* inst_ptr<T>(self)->weak_from_this().lock(): a non-empty shared_ptr iff the
\* payload is owned by a shared_ptr
weak_from_this_lock(w, self) == StrongCount(w, self) > 0

\* what the hook attaches: the heap copy of the shared_ptr and its deleter
SharedPtrEntry == [payload |-> "new shared_ptr", callback |-> "delete shared_ptr"]

\* detail::keep_alive(nurse, payload, callback)
keep_alive(w, nurse, entry) == [w EXCEPT !.keep[nurse] = Append(@, entry)]

\* the result of lock() not looked at
keep_shared_from_this_alive_unchecked(w, self) ==
    [ok |-> "true", w |-> keep_alive(w, self, SharedPtrEntry)]

\* the lambda stored in d.keep_shared_from_this_alive
keep_shared_from_this_alive(w, self) ==
    IF weak_from_this_lock(w, self)
    THEN [ok |-> "true", w |-> keep_alive(w, self, SharedPtrEntry)]
    ELSE [ok |-> "false", w |-> w]

InitShared ==
    /\ pc = "start"
    /\ kind = "class"
    /\ T \in SharedTypes
    /\ garbage \in {"NULL", "JUNK"}
    /\ d = FreshTypeInitData(garbage)
    /\ applied = <<>>
    /\ supp = NoSupp
    /\ scopeAttrs = {}
    /\ lastCall = NoCall
    /\ inst = <<>>
    /\ mem = <<>>
    /\ log = <<>>
    /\ IdleHost

\* the type is bound; host objects of it exist
Bound == pc = "bound" /\ kind = "class"

HostStep == UNCHANGED <<buildVars, instVars, defs, registry, cleanup, stack, holds, runs, marker>>

\* a host object of the bound type comes into being
NewObject ==
    /\ Bound
    /\ Len(native) < MaxInst
    /\ native' = Append(native, 0)
    /\ keep' = Append(keep, <<>>)
    /\ ret' = "none"
    /\ HostStep

\* native code takes a shared_ptr to the payload
NativeShare ==
    /\ Bound
    /\ \E h \in DOMAIN native :
          /\ T.shared
          /\ native[h] < MaxOwners
          /\ native' = [native EXCEPT ![h] = @ + 1]
    /\ ret' = "none"
    /\ UNCHANGED keep
    /\ HostStep

\* native code lets go of a shared_ptr that is not the last one
NativeDrop ==
    /\ Bound
    /\ \E h \in DOMAIN native :
          /\ native[h] > 0
          /\ StrongCount(HostWorld, h) > 1
          /\ native' = [native EXCEPT ![h] = @ - 1]
    /\ ret' = "none"
    /\ UNCHANGED keep
    /\ HostStep

\* the hook is called on a host object; it exists only in a type that has
\* has_shared_from_this
CallKeepAlive ==
    /\ Bound
    /\ T.shared
    /\ \E h \in DOMAIN native :
          /\ Len(keep[h]) < MaxKeep
          /\ LET r == keep_shared_from_this_alive(HostWorld, h)
             IN  /\ native' = r.w.native
                 /\ keep' = r.w.keep
                 /\ ret' = r.ok
    /\ HostStep

\* teardown of the youngest host object releases its keep-alive list
HostTeardown ==
    /\ Bound
    /\ \E h \in DOMAIN native :
          /\ h = Len(native)
          /\ native' = SubSeq(native, 1, h - 1)
          /\ keep' = SubSeq(keep, 1, h - 1)
    /\ ret' = "none"
    /\ HostStep

NextShared ==
    \/ ClassBegin
    \/ ApplyTrait
    \/ TypeNew
    \/ ConstructorReturn
    \/ NewObject
    \/ NativeShare
    \/ NativeDrop
    \/ CallKeepAlive
    \/ HostTeardown

SpecShared == InitShared /\ [][NextShared]_vars

\* C11: the descriptor handed to nb_type_new has has_shared_from_this and
\* the keep-alive hook iff T supports shared ownership; called on a host
\* object whose payload a shared_ptr owns, the hook appends exactly one entry
\* (the owned reference and its release callback) to the keep-alive list of
\* that object and returns true; called otherwise it returns false and
\* changes no keep-alive list.
C11_KeepAliveHook ==
    [][/\ Handed' =>
            /\ (has_shared_from_this \subseteq d'.flags) <=> T.shared
            /\ (d'.keep_shared_from_this_alive = "keep_shared_from_this_alive") <=> T.shared
       /\ (Bound /\ T.shared) =>
            \A h \in DOMAIN native :
                LET r == keep_shared_from_this_alive(HostWorld, h)
                IN  IF StrongCount(HostWorld, h) > 0
                    THEN /\ r.ok = "true"
                         /\ r.w.keep = [keep EXCEPT ![h] = Append(@, SharedPtrEntry)]
                         /\ r.w.native = native
                    ELSE r.ok = "false" /\ r.w = HostWorld
       /\ ret' = "true" =>
            \E h \in DOMAIN keep :
                /\ StrongCount(HostWorld, h) > 0
                /\ keep' = [keep EXCEPT ![h] = Append(@, SharedPtrEntry)]
       /\ ret' = "false" => keep' = keep]_vars

\* the hook has failed on one object and attached a reference to the other
C11_Witness ==
    /\ Bound /\ T.shared
    /\ Len(keep) = 2
    /\ keep[1] = <<>> /\ native[1] = 0
    /\ keep[2] = <<SharedPtrEntry>> /\ native[2] = 1
    /\ ret = "true"

----------------------------------------------------------------------------
(* init_implicit<Arg> and the implicit conversion registry *)

MaxDefs == 2
MaxRegistry == 3
MaxCleanup == 2

\* what the compiler knows about make_caster<Arg>
ArgTypes == [baseCaster : BOOLEAN, classCaster : BOOLEAN]

is_base_caster_v(arg) == arg.baseCaster
is_class_caster_v(arg) == arg.classCaster

\* Arg is handled by a type caster and not by a binding: the negation of the
\* condition class_ asserts of the type it binds
CasterBound(arg) == ~is_base_caster_v(arg)

\* the part of the state a def() and a predicate work on
DefWorld == [defs |-> defs, registry |-> registry, cleanup |-> cleanup]

\* cpp_function_def(f, scope(*this), name(name_), is_method(), extra...)
cpp_function_def(w, name, arg, extra) ==
    [w EXCEPT !.defs = Append(@, [name |-> name, arg |-> arg, extra |-> extra])]

\* class_::def(name_, f, extra...)
class_def(w, name, arg, extra) == cpp_function_def(w, name, arg, extra)

\* detail::implicitly_convertible(predicate, &typeid(Target))
implicitly_convertible_predicate(w, caster, target) ==
    [w EXCEPT !.registry =
        Append(@, [shape |-> "predicate", source |-> caster, target |-> target])]

\* detail::implicitly_convertible(&typeid(Source), &typeid(Target))
implicitly_convertible_typeid(w, source, target) ==
    [w EXCEPT !.registry =
        Append(@, [shape |-> "typeid", source |-> source, target |-> target])]

\* the predicate registered whatever make_caster<Arg> is
init_implicit_execute_unconditional(w, arg) ==
    implicitly_convertible_predicate(
        class_def(w, "__init__", arg, "is_implicit"), arg, T)

\* init_implicit<Arg>::execute
init_implicit_execute(w, arg) ==
    LET w1 == class_def(w, "__init__", arg, "is_implicit")
    IN  IF ~is_class_caster_v(arg)
        THEN implicitly_convertible_predicate(w1, arg, T)
        ELSE w1

\* class_::def(init_implicit<Arg> &&, extra...)
def_init_implicit(w, arg) == init_implicit_execute(w, arg)

\* implicitly_convertible<Source, Target>()
implicitly_convertible(w, source) ==
    IF is_base_caster_v(source)
    THEN implicitly_convertible_typeid(w, source, T)
    ELSE implicitly_convertible_predicate(w, source, T)

\* a host value, which make_caster<Arg> can convert or not
HostValues == [convertible : BOOLEAN]

\* Caster().from_python(src, cast_flags::convert, cleanup): on success the
\* caster may leave a temporary on the cleanup list
from_python(w, caster, src, temporary) ==
    IF src.convertible
    THEN [ok |-> "true",
          w |-> IF temporary THEN [w EXCEPT !.cleanup = Append(@, "temporary")] ELSE w]
    ELSE [ok |-> "false", w |-> w]

\* the predicate lambda handed to detail::implicitly_convertible
predicate(w, caster, src, temporary) == from_python(w, caster, src, temporary)

InitImplicit ==
    /\ pc = "bound"
    /\ kind = "class"
    /\ T \in {Point, Animal}
    /\ garbage = "NULL"
    /\ d = FreshTypeInitData("NULL")
    /\ applied = <<>>
    /\ supp = NoSupp
    /\ scopeAttrs = {}
    /\ lastCall = NoCall
    /\ inst = <<>>
    /\ mem = <<>>
    /\ log = <<>>
    /\ IdleHost

DefStep(w, r) ==
    /\ defs' = w.defs
    /\ registry' = w.registry
    /\ cleanup' = w.cleanup
    /\ ret' = r
    /\ UNCHANGED <<buildVars, instVars, native, keep, stack, holds, runs, marker>>

DefInitImplicit ==
    /\ Bound
    /\ Len(defs) < MaxDefs
    /\ Len(registry) < MaxRegistry
    /\ \E arg \in ArgTypes : DefStep(def_init_implicit(DefWorld, arg), "none")

ImplicitlyConvertible ==
    /\ Bound
    /\ Len(registry) < MaxRegistry
    /\ \E source \in ArgTypes : DefStep(implicitly_convertible(DefWorld, source), "none")

\* a conversion to T is attempted with a registered predicate
CallPredicate ==
    /\ Bound
    /\ Len(cleanup) < MaxCleanup
    /\ \E i \in DOMAIN registry, src \in HostValues, temporary \in BOOLEAN :
          /\ registry[i].shape = "predicate"
          /\ LET r == predicate(DefWorld, registry[i].source, src, temporary)
             IN  DefStep(r.w, r.ok)

\* the caller releases its cleanup list
ReleaseCleanup ==
    /\ Bound
    /\ cleanup # <<>>
    /\ DefStep([DefWorld EXCEPT !.cleanup = <<>>], "none")

NextImplicit ==
    \/ DefInitImplicit
    \/ ImplicitlyConvertible
    \/ CallPredicate
    \/ ReleaseCleanup

SpecImplicit == InitImplicit /\ [][NextImplicit]_vars

\* this step is a def(init_implicit<Arg>) with the Arg of the new initializer
DefinedImplicit == Len(defs') = Len(defs) + 1

NewDef == defs'[Len(defs')]

PredicateEntry(arg) == [shape |-> "predicate", source |-> arg, target |-> T]

\* C12 as stated: def(init_implicit<Arg>) installs the initializer and
\* registers a predicate keyed by T, except that the registration is skipped
\* when Arg is handled by the competing caster mechanism; a predicate that
\* fails changes nothing.
C12_SkippedForCasterArg ==
    [][/\ DefinedImplicit =>
            /\ defs' = Append(defs, [name |-> "__init__", arg |-> NewDef.arg,
                                     extra |-> "is_implicit"])
            /\ registry' = IF CasterBound(NewDef.arg) THEN registry
                           ELSE Append(registry, PredicateEntry(NewDef.arg))
       /\ ret' = "false" => UNCHANGED <<defs, registry, cleanup>>]_vars

\* C12: def(init_implicit<Arg>) always installs the implicit "__init__" and
\* registers a predicate keyed by T's identity exactly when make_caster<Arg>
\* is not a class caster, whether or not Arg is handled by a type caster; a
\* registered predicate that fails to convert the host value returns false
\* and changes neither the cleanup list nor the registry nor the initializers.
C12_RegisteredUnlessClassCaster ==
    [][/\ DefinedImplicit =>
            /\ defs' = Append(defs, [name |-> "__init__", arg |-> NewDef.arg,
                                     extra |-> "is_implicit"])
            /\ registry' = IF is_class_caster_v(NewDef.arg) THEN registry
                           ELSE Append(registry, PredicateEntry(NewDef.arg))
       /\ Bound =>
            \A arg \in ArgTypes :
                LET w == def_init_implicit(DefWorld, arg)
                IN  /\ Len(w.defs) = Len(defs) + 1
                    /\ (w.registry # registry) <=> ~is_class_caster_v(arg)
       /\ Bound =>
            \A i \in DOMAIN registry, temporary \in BOOLEAN :
                registry[i].shape = "predicate" =>
                    LET r == predicate(DefWorld, registry[i].source,
                                       [convertible |-> FALSE], temporary)
                    IN  r.ok = "false" /\ r.w = DefWorld
       /\ ret' = "false" => UNCHANGED <<defs, registry, cleanup>>]_vars

\* initializers for an Arg handled by a type caster and for a bound class Arg
\* are installed, only the first has its predicate registered, and that
\* predicate has just failed while a temporary of an earlier success is still
\* on the cleanup list
C12_Witness ==
    /\ Bound
    /\ Len(defs) = 2
    /\ defs[1].arg = [baseCaster |-> FALSE, classCaster |-> FALSE]
    /\ defs[2].arg = [baseCaster |-> TRUE, classCaster |-> TRUE]
    /\ registry = <<PredicateEntry(defs[1].arg)>>
    /\ cleanup = <<"temporary">>
    /\ ret = "false"

----------------------------------------------------------------------------
(* Destruct hooks that re-enter the facade *)

MaxNest == 3

Nest == 1 .. MaxNest

\* which payload refers to which instances: a payload only refers to
\* instances made after its own, and an instance is referred to by at most
\* one payload, which then has its only reference
HoldShapes ==
    {f \in [Nest -> SUBSET Nest] :
        /\ \A h \in Nest : \A b \in f[h] : b > h
        /\ \A b \in Nest : Cardinality({h \in Nest : b \in f[h]}) <= 1}

\* the part of the state a teardown works on
NestWorld ==
    [inst |-> inst, mem |-> mem, calls |-> <<>>, stack |-> stack, runs |-> runs,
     marker |-> marker]

Top(st) == st[Len(st)]

\* the hook let through only while no other hook is running
wrap_destruct_one_at_a_time(w, h) ==
    IF w.marker = "none"
    THEN [w EXCEPT !.calls = Append(@, Call("wrap_destruct", w.inst[h].ptr, h)),
                   !.mem[w.inst[h].ptr] = "dead",
                   !.runs[h] = @ + 1,
                   !.marker = "destructing"]
    ELSE w

\* wrap_destruct<T>(value): ((T *) value)->~T() is entered
wrap_destruct(w, h) ==
    [w EXCEPT !.calls = Append(@, Call("wrap_destruct", w.inst[h].ptr, h)),
              !.mem[w.inst[h].ptr] = "dead",
              !.runs[h] = @ + 1]

\* the end of a teardown (how = "dealloc") or of detail::nb_inst_destruct
\* (how = "destruct"): the bookkeeping of the instance itself
teardown_finish(w, h, how) ==
    IF how = "dealloc"
    THEN [w EXCEPT !.inst[h] = GoneInst, !.mem[h] = "freed"]
    ELSE [w EXCEPT !.inst[h].ready = FALSE, !.inst[h].destruct = FALSE]

\* the start of a teardown or of detail::nb_inst_destruct: the hook is
\* entered if the instance owns its payload
teardown_begin(w, h, how) ==
    IF w.inst[h].destruct /\ TypeHas(is_destructible)
    THEN [wrap_destruct(w, h)
            EXCEPT !.stack = Append(@, [h |-> h, how |-> how]),
                   !.inst[h].st = IF how = "dealloc" THEN "dying" ELSE @]
    ELSE teardown_finish(w, h, how)

\* inst_destruct(h), up to the point where the hook is running
inst_destruct_enter(w, h) == teardown_begin(w, h, "destruct")

InitNested ==
    /\ pc = "bound"
    /\ kind = "class"
    /\ T = Animal
    /\ garbage = "NULL"
    /\ d = FreshTypeInitData("NULL")
    /\ applied = <<>>
    /\ supp = NoSupp
    /\ scopeAttrs = {}
    /\ lastCall = NoCall
    /\ holds \in HoldShapes
    /\ \E owns \in [Nest -> BOOLEAN] :
          inst = [h \in Nest |->
                    [FreeInst EXCEPT !.st = "live", !.ty = "bound", !.via = "alloc",
                                     !.ready = TRUE, !.destruct = owns[h], !.ptr = h,
                                     !.held = \A a \in Nest : h \notin holds[a]]]
    /\ mem = [h \in Nest |-> "T"]
    /\ log = <<>>
    /\ native = <<>> /\ keep = <<>> /\ ret = "none"
    /\ defs = <<>> /\ registry = <<>> /\ cleanup = <<>>
    /\ stack = <<>>
    /\ runs = [h \in Nest |-> 0]
    /\ marker = "none"

NestStep(w) ==
    /\ inst' = w.inst
    /\ mem' = w.mem
    /\ log' = w.calls
    /\ stack' = w.stack
    /\ runs' = w.runs
    /\ marker' = w.marker
    /\ UNCHANGED <<buildVars, native, keep, ret, defs, registry, cleanup, holds>>

\* the caller gives up its reference: the host collects the instance
ReleaseRoot ==
    /\ stack = <<>>
    /\ \E h \in Nest :
          /\ inst[h].st = "live" /\ inst[h].held
          /\ NestStep(teardown_begin(NestWorld, h, "dealloc"))

\* the caller calls inst_destruct
DestructRoot ==
    /\ stack = <<>>
    /\ \E h \in Nest :
          /\ inst[h].st = "live" /\ inst[h].held /\ inst[h].ready
          /\ NestStep(inst_destruct_enter(NestWorld, h))

\* the running destructor gives up a reference its payload has: the host
\* collects that instance
HookReleases ==
    /\ stack # <<>>
    /\ \E b \in holds[Top(stack).h] :
          /\ inst[b].st = "live"
          /\ NestStep(teardown_begin(NestWorld, b, "dealloc"))

\* the running destructor calls inst_destruct on an instance its payload
\* refers to
HookDestructs ==
    /\ stack # <<>>
    /\ \E b \in holds[Top(stack).h] :
          /\ inst[b].st = "live" /\ inst[b].ready
          /\ NestStep(inst_destruct_enter(NestWorld, b))

\* the running destructor returns, having given up what its payload had
HookReturns ==
    /\ stack # <<>>
    /\ \A b \in holds[Top(stack).h] : inst[b].st # "live"
    /\ NestStep(teardown_finish([NestWorld EXCEPT !.stack = SubSeq(@, 1, Len(@) - 1)],
                                Top(stack).h, Top(stack).how))

NextNested ==
    \/ ReleaseRoot
    \/ DestructRoot
    \/ HookReleases
    \/ HookDestructs
    \/ HookReturns

SpecNested == InitNested /\ [][NextNested]_vars

\* this step enters the destruct hook of h
Enters(h) == Len(stack') = Len(stack) + 1 /\ Top(stack').h = h

\* this step is the return of the destruct hook of h
Leaves(h) == Len(stack') = Len(stack) - 1 /\ Top(stack).h = h

\* the destruct hook of h has been entered and has not returned
Running(h) == \E i \in 1 .. Len(stack) : stack[i].h = h

\* C13: with destruct hooks that, while running, cause the teardown or the
\* destruction of other instances: the hook of an instance runs at most once,
\* and exactly when a teardown or inst_destruct finds the instance owning;
\* the state of an instance changes only in its own teardown; nothing that is
\* not scoped to an instance is written; and when the outermost hook has
\* returned, every instance whose hook ran has all instances its payload
\* referred to collected, whatever the depth and the order of the releases.
C13_Reentrant ==
    [][/\ marker = "none" /\ marker' = "none"
       /\ \A h \in Nest :
            /\ runs'[h] <= 1
            /\ Enters(h) <=> runs'[h] = runs[h] + 1
            /\ runs'[h] # runs[h] => (inst[h].destruct /\ log' = <<Call("wrap_destruct", h, h)>>)
            /\ (~Running(h) /\ inst[h].destruct /\ inst'[h] # inst[h]) => Enters(h)
            /\ inst'[h] # inst[h] =>
                  \/ Enters(h)
                  \/ Leaves(h)
                  \/ (stack' = stack /\ ~inst[h].destruct)
       /\ stack' = <<>> =>
            \A h \in Nest :
                /\ inst'[h].st # "dying"
                /\ runs'[h] = 1 => \A b \in holds[h] : inst'[b].st = "gone"]_vars

\* three hooks are running inside one another
C13_Witness ==
    /\ Len(stack) = 3
    /\ stack[1].h = 1 /\ stack[2].h = 2 /\ stack[3].h = 3
    /\ runs = [h \in Nest |-> IF h <= 3 THEN 1 ELSE 0]
    /\ inst[1].st = "dying" /\ inst[2].st = "dying" /\ inst[3].st = "dying"

====
